---- MODULE Spec2Model ----
(***************************************************************************)
(* Model of lib/packageTemplate.js (cfn2-package-core).                    *)
(*                                                                         *)
(* The source file holds two implementations of packageTemplate: one that  *)
(* talks to AWS through signed https requests (lines 1-363) and one that   *)
(* uses the aws-sdk clients (lines 365-673).  The variable impl says which *)
(* one a behaviour runs; everything that differs between the two is        *)
(* guarded by it.                                                          *)
(*                                                                         *)
(* JavaScript values are tagged records [t |-> type, v |-> value]; strings *)
(* are sequences of tokens so that concatenation and startsWith are        *)
(* computed, not assumed.  An exception that nobody catches ends the       *)
(* process: crashed becomes TRUE and nothing runs afterwards.              *)
(***************************************************************************)
EXTENDS Integers, Sequences, FiniteSets, TLC

VARIABLES
  impl,            \* "https" (lines 1-363) or "sdk" (lines 365-673)
  options,         \* the options record given to packageTemplate
  templateFile,    \* the parsed content of options.templateFile on disk
  stack,           \* logical ids the live stack knows (DescribeStackResources)
  store,           \* the bucket: key -> stored payload, "absent" or "unknown"
  runsLeft,        \* calls of packageTemplate still to be made
  phase,           \* "idle", "loading", "executing", "done", "failed"
  template,        \* the in-memory template of the current run
  StackResources,  \* options.StackResources of the current run
  outer,           \* run-parallel state of the loading join (lines 37-47)
  inner,           \* run-parallel state of the resource tasks (line 63)
  tasks,           \* per logical id: the state of its resource task
  callbackLog,     \* the invocations of the completion callback, in order
  crashed,         \* an uncaught exception ended the process
  prev             \* what the previous run did, per logical id

vars == <<impl, options, templateFile, stack, store, runsLeft, phase, template,
          StackResources, outer, inner, tasks, callbackLog, crashed, prev>>

(***************************************************************************)
(* Bounds of the model.                                                    *)
(***************************************************************************)
MaxRuns == 2
ZipVariants == 2

(***************************************************************************)
(* JavaScript values.                                                      *)
(***************************************************************************)
JUndefined == [t |-> "undefined"]
JNull == [t |-> "null"]
JArr(f) == [t |-> "array", v |-> f]
JStr(s) == [t |-> "string", v |-> s]
JObj(f) == [t |-> "object", v |-> f]

\* typeof x
TypeOf(x) ==
  CASE x.t = "undefined" -> "undefined"
    [] x.t = "string" -> "string"
    [] OTHER -> "object"

MutStartsWith(s, tok) == FALSE

\* String.prototype.startsWith on token strings
StartsWith(s, tok) == Len(s) > 0 /\ s[1] = tok

\* String.prototype.substr(0, 16) of a 32 digit hex digest, kept as two halves
Substr16(digest) == digest.hi

\* md5(data): hex digest of the payload
md5(data) == [hi |-> <<"md5hi", data[1], data[2]>>, lo |-> <<"md5lo", data[1], data[2]>>]

NoErr == <<>>

\* the empty mapping
Empty == [x \in {} |-> JUndefined]

\* obj[name] where it does not throw; a missing key reads as undefined
Get(obj, name) ==
  IF obj.t \in {"object", "array"} /\ name \in DOMAIN obj.v
  THEN obj.v[name]
  ELSE JUndefined

(***************************************************************************)
(* The static type -> property table.  A JavaScript object literal keeps   *)
(* the last value given for a repeated key.                                *)
(***************************************************************************)
packageResourceMapEntries ==
  << <<"AWS::Serverless::Function", "CodeUri">>,
     <<"AWS::Serverless::Api", "DefinitionUri">>,
     <<"AWS::ApiGateway::RestApi", "BodyS3Location">>,
     <<"AWS::Lambda::Function", "Code">>,
     <<"AWS::AppSync::GraphQLSchema", "DefinitionS3Location">>,
     <<"AWS::AppSync::Resolver", "RequestMappingTemplateS3Location">>,
     <<"AWS::AppSync::Resolver", "ResponseMappingTemplateS3Location">>,
     <<"AWS::ElasticBeanstalk::Application-Version", "SourceBundle">>,
     <<"AWS::CloudFormation::Stack", "TemplateURL">>,
     <<"AWS::Include", "Location">> >>

packageResourceMap(Type) ==
  LET hits == {i \in 1..Len(packageResourceMapEntries) :
                 packageResourceMapEntries[i][1] = Type}
  IN  IF hits = {} THEN JUndefined
      ELSE JStr(packageResourceMapEntries[
                  CHOOSE i \in hits : \A j \in hits : j <= i][2])

\* the types line 118 lets through in live-update mode
FunctionTypes == {"AWS::Serverless::Function", "AWS::Lambda::Function"}

(***************************************************************************)
(* Inputs: the file system next to the template, and the templates.        *)
(***************************************************************************)
FilePath == <<"handler.zip">>
DirPath == <<"fn">>
MissingPath == <<"gone">>
RemoteUrl == <<"s3:", "/", "/", "elsewhere", "/", "object">>

\* what fs.readFile finds at a path
FsKind(path) ==
  CASE path = FilePath -> "file"
    [] path = DirPath -> "dir"
    [] OTHER -> "none"

\* the bytes of the regular file
FileBytes == <<"file", 0>>

\* the archives zip.generateAsync may produce for the directory: the entry
\* order (nosort) and the entry dates are not fixed by the directory content
Archives == {<<"zip", i>> : i \in 1..ZipVariants}

\* the thumbprint npm-lambda-pack gives for the directory
DirThumbprint == [hi |-> <<"thumbhi", "dir", 0>>, lo |-> <<"thumblo", "dir", 0>>]

PropNames == {"CodeUri", "DefinitionUri", "Handler"}

Props(p, v) ==
  JObj([n \in PropNames |->
          IF n = p THEN v
          ELSE IF n = "Handler" THEN JStr(<<"index.handler">>) ELSE JUndefined])

ArtifactValues ==
  {JStr(FilePath), JStr(DirPath), JStr(MissingPath), JStr(RemoteUrl),
   JObj(Empty), JUndefined}

ResourceKinds ==
  { [Type |-> "AWS::Serverless::Function", Properties |-> p] :
      p \in {JUndefined, JStr(<<"oops">>), JNull, JArr(Empty)}
            \cup {Props("CodeUri", v) : v \in ArtifactValues} }
  \cup
  { [Type |-> "AWS::Serverless::Api", Properties |-> p] :
      p \in {JStr(<<"oops">>)}
            \cup {Props("DefinitionUri", v) : v \in {JStr(FilePath), JStr(DirPath)}} }
  \cup
  { [Type |-> "Custom::Thing", Properties |-> Props("CodeUri", JStr(FilePath))] }

LogicalIds == {"A", "B"}

\* Object.entries order of the keys that can occur
IdOrder == <<"A", "B">>

\* the second resource of a template with two
SiblingKinds ==
  { [Type |-> "AWS::Serverless::Function", Properties |-> p] :
      p \in {JStr(<<"oops">>), Props("CodeUri", JStr(FilePath))} }
  \cup
  { [Type |-> "AWS::Serverless::Api",
     Properties |-> Props("DefinitionUri", JStr(FilePath))] }

\* templates with at most one resource, and the malformed ones
TemplatesOne ==
  { [Resources |-> r] : r \in {JUndefined, JStr(<<"oops">>), JNull} }
  \cup { [Resources |-> JObj(f)] :
           f \in UNION { [ids -> ResourceKinds] : ids \in {{}, {"A"}} } }

TemplatesTwo ==
  { [Resources |-> JObj([k \in LogicalIds |-> IF k = "A" THEN a ELSE b])] :
      a \in ResourceKinds, b \in SiblingKinds }

Templates == TemplatesOne \cup TemplatesTwo

Prefixes == {JUndefined, JStr(<<"pfx">>)}

(***************************************************************************)
(* run-parallel: each(i, err, result) and done(err).                       *)
(***************************************************************************)
\* done(err) is called: --pending === 0 || err
Fires(par, err) == par.pending - 1 = 0 \/ err # NoErr

\* end() finds cb still set and calls it
Invoked(par, err) == Fires(par, err) /\ par.cb

MutEach(par, err) == [pending |-> par.pending - 1, cb |-> par.cb]

\* each(): one callback of a task; end() clears cb once it has called it
Each(par, err) ==
  [pending |-> par.pending - 1,
   cb |-> IF Fires(par, err) THEN FALSE ELSE par.cb]

(***************************************************************************)
(* Errors, as token strings.                                               *)
(***************************************************************************)
ErrResources == <<"Resources must be an object.">>
ErrProperties(logicalId) == <<"Resources.", logicalId, ".Properties must be an object.">>
ErrResponse(status) == <<"Response ", status, " from S3">>
ErrNotFound(logicalId) == <<"The resource '", logicalId, "' in the stack is not found">>
ErrUpdate(FunctionName) == <<"Updating the function '", FunctionName, "' is failed">>
ErrTransport(what) == <<"transport error: ", what>>
ErrFs(code) == <<"fs error: ", code>>
ErrLoad == <<"template load error">>
ErrDescribe(what) == <<"DescribeStackResources: ", what>>

\* PhysicalResourceId[0] of a live stack resource
PhysicalId(logicalId) == <<"physical-", logicalId>>

(***************************************************************************)
(* upload(): the key and the remote location (lines 189-198, 531-538).     *)
(***************************************************************************)
ShortMd5(body, thumbprint) ==
  IF thumbprint.t # "undefined" THEN Substr16(thumbprint.v) ELSE Substr16(md5(body))

Key(prefix, logicalId, shortMd5) ==
  IF prefix.t = "undefined"
  THEN <<logicalId, "-", shortMd5>>
  ELSE prefix.v \o <<"/", logicalId, "-", shortMd5>>

\* `/${bucket}/${key}`
Path(bucket, key) == <<"/", bucket, "/">> \o key

MutS3Url(bucket, key) == <<"s3:", "/">> \o <<bucket, "/">> \o key

\* https: `s3:/${path}`;  sdk: `s3://${bucket}/${key}`
S3Url(bucket, key) ==
  IF impl = "https"
  THEN <<"s3:", "/">> \o Path(bucket, key)
  ELSE <<"s3:", "/", "/", bucket, "/">> \o key

(***************************************************************************)
(* The state of one resource task.                                         *)
(***************************************************************************)
IdleTask ==
  [stage |-> "idle",         \* how far the task's own code got
   body |-> <<"none", 0>>,   \* the payload given to upload()
   thumbprint |-> JUndefined,
   head |-> "none", headStatus |-> 0,
   put |-> "none", putStatus |-> 0,
   upd |-> "none", updStatus |-> 0,
   params |-> <<>>,          \* the parameters given to updateFunctionCode
   log |-> <<>>]             \* the errors (NoErr for null) the task called back with

TaskKey(logicalId) ==
  Key(options.prefix, logicalId,
      ShortMd5(tasks[logicalId].body, tasks[logicalId].thumbprint))

\* the keys of Resources in Object.entries order
EntryOrder(Resources) ==
  SelectSeq(IdOrder, LAMBDA k : k \in DOMAIN Resources.v)

\* the record of one invocation of the completion callback:
\* callback(err) or callback(null, template)
Completion(err, withTemplate) == [err |-> err, template |-> withTemplate]

MutPlan(resource) ==
  LET Type == resource.Type
      propertyName == packageResourceMap(Type)
      Properties == resource.Properties
  IN  IF propertyName.t = "undefined" THEN "skip"
      ELSE IF Properties.t = "undefined" THEN "skip"
      ELSE IF TypeOf(Properties) # "object" THEN "invalid"
      ELSE IF options.updateFunctions /\ Type \notin FunctionTypes THEN "skip"
      ELSE IF Properties.t = "null" THEN "throw"
      ELSE LET value == Get(Properties, propertyName.v)
           IN  IF TypeOf(value) # "string" \/ StartsWith(value.v, "s3:")
               THEN "skip"
               ELSE "read"

(***************************************************************************)
(* makeResourceTasks: what a task does before its first I/O (115-151).     *)
(***************************************************************************)
Plan(resource) ==
  LET Type == resource.Type
      propertyName == packageResourceMap(Type)
      Properties == resource.Properties
  IN  IF options.updateFunctions /\ Type \notin FunctionTypes THEN "skip"
      ELSE IF propertyName.t = "undefined" THEN "skip"
      ELSE IF Properties.t = "undefined" THEN "skip"
      ELSE IF TypeOf(Properties) # "object" THEN "invalid"
      ELSE IF Properties.t = "null" THEN "throw"   \* null[propertyName]: TypeError
      ELSE LET value == Get(Properties, propertyName.v)
           IN  IF TypeOf(value) # "string" \/ StartsWith(value.v, "s3:")
               THEN "skip"
               ELSE "read"

\* the artifact property of a resource the planner let through
PropertyName(resource) == packageResourceMap(resource.Type).v

\* path.resolve(options.templateDir, value): the model keeps paths relative
ArtifactPath(resource) == Get(resource.Properties, PropertyName(resource)).v

\* index of the first task that throws while the tasks are started, or 0
ThrowAt(order, Resources) ==
  LET at == {i \in 1..Len(order) : Plan(Resources.v[order[i]]) = "throw"}
  IN  IF at = {} THEN 0 ELSE CHOOSE i \in at : \A j \in at : i <= j

\* the task of order[i] once parallel() has called every task function
Planned(order, Resources, i) ==
  LET k == order[i]
      d == Plan(Resources.v[k])
      t == ThrowAt(order, Resources)
  IN  IF t # 0 /\ i > t THEN IdleTask
      ELSE CASE d = "skip" -> [IdleTask EXCEPT !.stage = "skipped", !.log = <<NoErr>>]
             [] d = "invalid" ->
                  [IdleTask EXCEPT !.stage = "invalid", !.log = <<ErrProperties(k)>>]
             [] d = "throw" -> [IdleTask EXCEPT !.stage = "thrown"]
             [] OTHER -> [IdleTask EXCEPT !.stage = "reading"]

\* the callbacks made synchronously, in order
RECURSIVE SyncErrs(_, _, _)
SyncErrs(order, Resources, i) ==
  IF i > Len(order) THEN <<>>
  ELSE LET t == Planned(order, Resources, i)
       IN  (IF t.log = <<>> THEN <<>> ELSE t.log) \o SyncErrs(order, Resources, i + 1)

RECURSIVE EachAll(_, _)
EachAll(par, errs) ==
  IF errs = <<>> THEN par ELSE EachAll(Each(par, Head(errs)), Tail(errs))

MutInnerCallback(err) ==
  IF err # NoErr
  THEN <<Completion(err, FALSE), Completion(NoErr, TRUE)>>
  ELSE <<Completion(NoErr, TRUE)>>

\* the callback given to parallel(makeResourceTasks(options), ...), lines 63-69:
\* the invocations of the completion callback it makes
InnerCallback(err) ==
  IF err # NoErr THEN <<Completion(err, FALSE)>> ELSE <<Completion(NoErr, TRUE)>>

\* the completions the queued end() calls deliver, in order
RECURSIVE Ends(_, _)
Ends(par, errs) ==
  IF errs = <<>> THEN <<>>
  ELSE (IF Invoked(par, Head(errs)) THEN InnerCallback(Head(errs)) ELSE <<>>)
       \o Ends(Each(par, Head(errs)), Tail(errs))

PhaseAfter(log, otherwise) ==
  IF log = <<>> THEN otherwise
  ELSE IF log[1].err = NoErr THEN "done" ELSE "failed"

(***************************************************************************)
(* The callback of the loading join (lines 47-70).                         *)
(***************************************************************************)
OuterCallback(err, tpl) ==
  IF err # NoErr
  THEN /\ callbackLog' = Append(callbackLog, Completion(err, FALSE))
       /\ phase' = PhaseAfter(callbackLog', phase)
       /\ UNCHANGED <<tasks, inner, crashed>>
  ELSE LET Resources == tpl.Resources IN
       IF TypeOf(Resources) # "object"
       THEN /\ callbackLog' = Append(callbackLog, Completion(ErrResources, FALSE))
            /\ phase' = PhaseAfter(callbackLog', phase)
            /\ UNCHANGED <<tasks, inner, crashed>>
       ELSE IF Resources.t = "null"
       THEN \* Object.entries(null): TypeError
            /\ crashed' = TRUE
            /\ phase' = "planning"
            /\ UNCHANGED <<tasks, inner, callbackLog>>
       ELSE LET order == EntryOrder(Resources)
                n == Len(order)
                errs == SyncErrs(order, Resources, 1)
                start == [pending |-> n, cb |-> TRUE]
                threw == ThrowAt(order, Resources) # 0
                ends == IF threw THEN <<>>
                        ELSE IF n = 0 THEN InnerCallback(NoErr)
                        ELSE Ends(start, errs)
            IN  /\ tasks' = [k \in DOMAIN Resources.v |->
                               Planned(order, Resources,
                                       CHOOSE i \in 1..n : order[i] = k)]
                /\ inner' = IF n = 0 THEN [pending |-> 0, cb |-> FALSE]
                            ELSE EachAll(start, errs)
                /\ crashed' = threw
                /\ callbackLog' = callbackLog \o ends
                /\ phase' = PhaseAfter(callbackLog', "executing")

(***************************************************************************)
(* Initial states: the configuration and the world, before any call.       *)
(***************************************************************************)
InitWorld(templates) ==
  /\ impl \in {"https", "sdk"}
  /\ options \in [bucket : {"bkt"}, prefix : Prefixes, updateFunctions : BOOLEAN]
  /\ templateFile \in templates
  /\ stack \in IF options.updateFunctions THEN SUBSET LogicalIds ELSE {{}}
  /\ store = Empty
  /\ phase = "idle"
  /\ template = JUndefined
  /\ StackResources = {}
  /\ outer = [pending |-> 0, cb |-> FALSE, read |-> "none", describe |-> "none"]
  /\ inner = [pending |-> 0, cb |-> FALSE]
  /\ tasks = Empty
  /\ callbackLog = <<>>
  /\ crashed = FALSE
  /\ prev = Empty

Init == InitWorld(Templates) /\ runsLeft = 1

InFlight(t) ==
  \/ t.stage \in {"reading", "packing"}
  \/ t.head = "sent" \/ t.put = "sent" \/ t.upd = "sent"

\* nothing of the current run is still going on
Quiet ==
  \/ phase = "idle"
  \/ crashed
  \/ /\ callbackLog # <<>>
     /\ outer.read # "sent" /\ outer.describe # "sent"
     /\ \A k \in DOMAIN tasks : ~InFlight(tasks[k])

\* the task uploaded its artifact: the PUT was answered 200
Uploaded(t) == t.put = "ended" /\ t.putStatus = 200

\* what a later run is compared with
Summary(k) ==
  [key |-> TaskKey(k),
   body |-> tasks[k].body,
   path |-> ArtifactPath(templateFile.Resources.v[k]),
   uploaded |-> Uploaded(tasks[k]) /\ phase = "done"]

(***************************************************************************)
(* packageTemplate(options, callback), lines 28-46: starts the two loads.  *)
(***************************************************************************)
PackageTemplate ==
  /\ runsLeft > 0
  /\ Quiet
  /\ runsLeft' = runsLeft - 1
  /\ phase' = "loading"
  /\ template' = JUndefined
  /\ StackResources' = {}
  /\ LET start == [pending |-> 2, cb |-> TRUE, read |-> "sent", describe |-> "sent"]
     IN  outer' = IF options.updateFunctions
                  THEN start
                  ELSE \* callback(null, {}) at once
                       [start EXCEPT !.pending = Each(start, NoErr).pending,
                                     !.describe = "done"]
  /\ inner' = [pending |-> 0, cb |-> FALSE]
  /\ tasks' = Empty
  /\ callbackLog' = <<>>
  /\ crashed' = FALSE
  /\ prev' = [k \in {j \in DOMAIN tasks : tasks[j].head # "none"} |-> Summary(k)]
  /\ UNCHANGED <<impl, options, templateFile, stack, store>>

\* each(key, err) of the loading join; read and describe keep how the load
\* ended: "done" for a result, "failed" for an error
OuterEach(field, err) ==
  LET ended == IF err = NoErr THEN "done" ELSE "failed"
  IN  [pending |-> Each(outer, err).pending, cb |-> Each(outer, err).cb,
       read |-> IF field = "read" THEN ended ELSE outer.read,
       describe |-> IF field = "describe" THEN ended ELSE outer.describe]

(***************************************************************************)
(* readTemplate's callback (line 38).                                      *)
(***************************************************************************)
ReadTemplateCallback(ok) ==
  /\ ~crashed
  /\ outer.read = "sent"
  /\ LET err == IF ok THEN NoErr ELSE ErrLoad
         tpl == IF ok THEN templateFile ELSE JUndefined
     IN  /\ outer' = OuterEach("read", err)
         /\ template' = tpl
         /\ IF Invoked(outer, err)
            THEN OuterCallback(err, tpl)
            ELSE UNCHANGED <<phase, tasks, inner, callbackLog, crashed>>
  /\ UNCHANGED <<impl, options, templateFile, stack, store, runsLeft,
                 StackResources, prev>>

\* how DescribeStackResources can end.  https: "parse" is a body xml2js
\* rejects (line 85), "ErrorResponse" an error document (line 93), "shape" a
\* well-formed document with neither root element (line 98)
DescribeOutcomes ==
  IF impl = "https" THEN {"ok", "transport", "parse", "ErrorResponse", "shape"}
  ELSE {"ok", "transport", "ErrorResponse"}

(***************************************************************************)
(* describeStackResources' callback (lines 73-112, 407-425).               *)
(***************************************************************************)
DescribeCallback(outcome) ==
  /\ ~crashed
  /\ outer.describe = "sent"
  /\ outcome \in DescribeOutcomes
  /\ LET err == IF outcome = "ok" THEN NoErr ELSE ErrDescribe(outcome)
     IN  IF outcome = "shape"
         THEN \* line 98 destructures undefined: TypeError in the parser's callback
              /\ crashed' = TRUE
              /\ outer' = [outer EXCEPT !.describe = "thrown"]
              /\ UNCHANGED <<StackResources, phase, tasks, inner, callbackLog>>
         ELSE /\ outer' = OuterEach("describe", err)
              /\ StackResources' = IF outcome = "ok" THEN stack ELSE {}
              /\ IF Invoked(outer, err)
                 THEN OuterCallback(err, template)
                 ELSE UNCHANGED <<phase, tasks, inner, callbackLog, crashed>>
  /\ UNCHANGED <<impl, options, templateFile, stack, store, runsLeft,
                 template, prev>>

MutTaskCallback(k, t, err) ==
  /\ tasks' = [tasks EXCEPT ![k] = [t EXCEPT !.log = Append(@, err)]]
  /\ inner' = [pending |-> inner.pending - 1, cb |-> FALSE]
  /\ callbackLog' = IF inner.cb
                    THEN callbackLog \o InnerCallback(err)
                    ELSE callbackLog
  /\ phase' = PhaseAfter(callbackLog', phase)

(***************************************************************************)
(* A resource task calls the callback run-parallel gave it (line 63).      *)
(***************************************************************************)
TaskCallback(k, t, err) ==
  /\ tasks' = [tasks EXCEPT ![k] = [t EXCEPT !.log = Append(@, err)]]
  /\ inner' = Each(inner, err)
  /\ callbackLog' = IF Invoked(inner, err)
                    THEN callbackLog \o InnerCallback(err)
                    ELSE callbackLog
  /\ phase' = PhaseAfter(callbackLog', phase)

\* the task goes on without calling back
TaskStep(k, t) ==
  /\ tasks' = [tasks EXCEPT ![k] = t]
  /\ UNCHANGED <<inner, callbackLog, phase>>

MutRewrite(k) ==
  [template EXCEPT
     !.Resources.v[k].Properties.v =
        [n \in DOMAIN @ |-> JStr(S3Url(options.bucket, TaskKey(k)))]]

\* Properties[propertyName] = s3url
Rewrite(k) ==
  [template EXCEPT
     !.Resources.v[k].Properties.v[PropertyName(template.Resources.v[k])] =
        JStr(S3Url(options.bucket, TaskKey(k)))]

(***************************************************************************)
(* readFile's callback (lines 158-177).                                    *)
(***************************************************************************)
ReadFileCallback(k) ==
  /\ ~crashed
  /\ k \in DOMAIN tasks
  /\ tasks[k].stage = "reading"
  /\ LET t == tasks[k]
         kind == FsKind(ArtifactPath(template.Resources.v[k]))
     IN  CASE kind = "file" ->
                TaskStep(k, [t EXCEPT !.stage = "uploading", !.body = FileBytes,
                                      !.head = "sent"])
           [] kind = "dir" -> TaskStep(k, [t EXCEPT !.stage = "packing"])
           [] OTHER -> TaskCallback(k, [t EXCEPT !.stage = "readFailed"], ErrFs("ENOENT"))
  /\ UNCHANGED <<impl, options, templateFile, stack, store, runsLeft, template,
                 StackResources, outer, crashed, prev>>

(***************************************************************************)
(* The packer's callback (lines 170-176; packFunction, packDirectory).     *)
(***************************************************************************)
PackerCallback(k, ok, archive) ==
  /\ ~crashed
  /\ k \in DOMAIN tasks
  /\ tasks[k].stage = "packing"
  /\ LET t == tasks[k]
         isFunction == template.Resources.v[k].Type \in FunctionTypes
     IN  IF ok
         THEN TaskStep(k, [t EXCEPT !.stage = "uploading", !.body = archive,
                                    !.thumbprint = IF isFunction
                                                   THEN JStr(DirThumbprint)
                                                   ELSE JUndefined,
                                    !.head = "sent"])
         ELSE TaskCallback(k, [t EXCEPT !.stage = "packFailed"], ErrFs("pack"))
  /\ UNCHANGED <<impl, options, templateFile, stack, store, runsLeft, template,
                 StackResources, outer, crashed, prev>>

(***************************************************************************)
(* The bucket.                                                             *)
(***************************************************************************)
Absent == <<"absent", 0>>
Foreign == <<"foreign", 0>>

\* what the bucket may hold under a key nobody looked at yet
MayHold(key, body) == IF key \in DOMAIN store THEN {store[key]} ELSE {Absent, body, Foreign}

\* HEAD with If-None-Match: "<md5OfBody>"
StorageStatus(content, md5OfBody) ==
  IF content = Absent THEN 404
  ELSE IF md5(content) = md5OfBody THEN 304
  ELSE 200

OtherStatus == 500

\* line 211 / 550: statusCode === 304
Unchanged(status) == status = 304

MutUnexpected(status) == status # 200

\* line 218 / 557: statusCode !== 200 && statusCode !== 404
Unexpected(status) == status # 200 /\ status # 404
PutStatuses == {200, 403}
UpdateStatuses == {200, 400}

MutUpdateParams(k) ==
  <<[FunctionName |-> PhysicalId(k), S3Bucket |-> options.bucket,
     S3Key |-> Key(JUndefined, k, ShortMd5(tasks[k].body, tasks[k].thumbprint))]>>

\* the parameters of updateFunctionCode (lines 248-252, 590-594)
UpdateParams(k) ==
  <<[FunctionName |-> PhysicalId(k), S3Bucket |-> options.bucket, S3Key |-> TaskKey(k)]>>

(***************************************************************************)
(* After the PUT: lines 234-260 and 576-604.                               *)
(***************************************************************************)
MutAfterPut(k, t) ==
  /\ template' = Rewrite(k)
  /\ IF ~options.updateFunctions
     THEN TaskCallback(k, t, NoErr)
     ELSE IF k \notin StackResources
     THEN TaskCallback(k, t, NoErr)
     ELSE TaskStep(k, [t EXCEPT !.upd = "sent", !.params = UpdateParams(k)])

AfterPut(k, t) ==
  /\ template' = Rewrite(k)
  /\ IF ~options.updateFunctions
     THEN TaskCallback(k, t, NoErr)
     ELSE IF k \notin StackResources
     THEN TaskCallback(k, t, ErrNotFound(k))
     ELSE TaskStep(k, [t EXCEPT !.upd = "sent", !.params = UpdateParams(k)])

(***************************************************************************)
(* The response to the existence check (lines 208-231, 546-571).           *)
(***************************************************************************)
HeadResponse(k, content, status) ==
  /\ ~crashed
  /\ k \in DOMAIN tasks
  /\ tasks[k].head = "sent"
  /\ content \in MayHold(TaskKey(k), tasks[k].body)
  /\ status \in {StorageStatus(content, md5(tasks[k].body)), OtherStatus}
  /\ store' = IF status = OtherStatus THEN store
              ELSE (TaskKey(k) :> content) @@ store
  /\ LET t == [tasks[k] EXCEPT !.head = "responded", !.headStatus = status]
     IN  IF Unchanged(status)
         THEN /\ template' = Rewrite(k)
              /\ TaskCallback(k, t, NoErr)
              /\ UNCHANGED crashed
         ELSE IF Unexpected(status)
         THEN IF impl = "https"
              THEN /\ TaskCallback(k, t, ErrResponse(status))
                   /\ UNCHANGED <<template, crashed>>
              ELSE \* line 558 reads res, which is not defined: ReferenceError
                   /\ crashed' = TRUE
                   /\ TaskStep(k, [t EXCEPT !.stage = "thrown"])
                   /\ UNCHANGED template
         ELSE /\ TaskStep(k, [t EXCEPT !.put = "sent"])
              /\ UNCHANGED <<template, crashed>>
  /\ UNCHANGED <<impl, options, templateFile, stack, runsLeft,
                 StackResources, outer, prev>>

(***************************************************************************)
(* The existence check ends in a transport error (lines 264, 546-560).     *)
(* https: the request's 'error' event, which may also follow a response.   *)
(* sdk: err without statusCode, which reaches line 558 as well.            *)
(***************************************************************************)
HeadError(k) ==
  /\ ~crashed
  /\ k \in DOMAIN tasks
  /\ LET t == tasks[k]
     IN  IF impl = "https"
         THEN /\ t.head \in {"sent", "responded"}
              /\ TaskCallback(k, [t EXCEPT !.head = IF t.head = "sent" THEN "failed"
                                                    ELSE "respFailed"],
                              ErrTransport("HEAD"))
              /\ UNCHANGED crashed
         ELSE /\ t.head = "sent"
              /\ crashed' = TRUE
              /\ TaskStep(k, [t EXCEPT !.head = "failed", !.stage = "thrown"])
  /\ UNCHANGED <<impl, options, templateFile, stack, store, runsLeft, template,
                 StackResources, outer, prev>>

(***************************************************************************)
(* The PUT is answered: 'end' of the response (lines 231-261), or          *)
(* putObject's callback (lines 571-605).  https never looks at the status, *)
(* and 'end' may follow an 'error' of the same request.                    *)
(***************************************************************************)
PutEnd(k, status) ==
  /\ ~crashed
  /\ k \in DOMAIN tasks
  /\ status \in PutStatuses
  /\ LET t == tasks[k]
         stored == (TaskKey(k) :> t.body) @@ store
     IN  IF impl = "https"
         THEN /\ t.put \in {"sent", "failed"}
              /\ store' = IF status = 200 THEN stored ELSE store
              /\ AfterPut(k, [t EXCEPT !.put = IF t.put = "sent" THEN "ended"
                                               ELSE "failedEnded",
                                       !.putStatus = status])
         ELSE /\ t.put = "sent"
              /\ IF status = 200
                 THEN /\ store' = stored
                      /\ AfterPut(k, [t EXCEPT !.put = "ended", !.putStatus = status])
                 ELSE /\ TaskCallback(k, [t EXCEPT !.put = "failed",
                                                   !.putStatus = status],
                                      ErrTransport("PUT"))
                      /\ UNCHANGED <<store, template>>
  /\ UNCHANGED <<impl, options, templateFile, stack, runsLeft,
                 StackResources, outer, crashed, prev>>

(***************************************************************************)
(* The PUT ends in a transport error (lines 262, 572-574).                 *)
(***************************************************************************)
PutError(k) ==
  /\ ~crashed
  /\ k \in DOMAIN tasks
  /\ tasks[k].put = "sent"
  /\ TaskCallback(k, [tasks[k] EXCEPT !.put = "failed"], ErrTransport("PUT"))
  /\ UNCHANGED <<impl, options, templateFile, stack, store, runsLeft, template,
                 StackResources, outer, crashed, prev>>

(***************************************************************************)
(* updateFunctionCode is answered (lines 252-260, 283-295, 596-604).       *)
(* https parses the body and never looks at the status.                    *)
(***************************************************************************)
UpdateEnd(k, status) ==
  /\ ~crashed
  /\ k \in DOMAIN tasks
  /\ status \in UpdateStatuses
  /\ LET t == tasks[k]
     IN  IF impl = "https"
         THEN /\ t.upd \in {"sent", "failed"}
              /\ TaskCallback(k, [t EXCEPT !.upd = IF t.upd = "sent" THEN "ended"
                                                   ELSE "failedEnded",
                                           !.updStatus = status],
                              NoErr)
         ELSE /\ t.upd = "sent"
              /\ TaskCallback(k, [t EXCEPT !.upd = IF status = 200 THEN "ended"
                                                   ELSE "failed",
                                           !.updStatus = status],
                              IF status = 200 THEN NoErr
                              ELSE ErrUpdate(PhysicalId(k)))
  /\ UNCHANGED <<impl, options, templateFile, stack, store, runsLeft, template,
                 StackResources, outer, crashed, prev>>

(***************************************************************************)
(* updateFunctionCode fails (lines 252-255, 284, 291, 296, 597-599).       *)
(***************************************************************************)
UpdateError(k) ==
  /\ ~crashed
  /\ k \in DOMAIN tasks
  /\ tasks[k].upd = "sent"
  /\ TaskCallback(k, [tasks[k] EXCEPT !.upd = "failed"], ErrUpdate(PhysicalId(k)))
  /\ UNCHANGED <<impl, options, templateFile, stack, store, runsLeft, template,
                 StackResources, outer, crashed, prev>>

Next ==
  \/ PackageTemplate
  \/ \E ok \in BOOLEAN : ReadTemplateCallback(ok)
  \/ \E outcome \in {"ok", "transport", "parse", "ErrorResponse", "shape"} :
       DescribeCallback(outcome)
  \/ \E k \in LogicalIds : ReadFileCallback(k)
  \/ \E k \in LogicalIds, ok \in BOOLEAN, archive \in Archives : PackerCallback(k, ok, archive)
  \/ \E k \in LogicalIds, content \in {Absent, Foreign, FileBytes} \cup Archives,
        status \in {304, 200, 404, OtherStatus} : HeadResponse(k, content, status)
  \/ \E k \in LogicalIds : HeadError(k)
  \/ \E k \in LogicalIds, status \in PutStatuses : PutEnd(k, status)
  \/ \E k \in LogicalIds : PutError(k)
  \/ \E k \in LogicalIds, status \in UpdateStatuses : UpdateEnd(k, status)
  \/ \E k \in LogicalIds : UpdateError(k)

Spec == Init /\ [][Next]_vars

\* several calls in a row against the same bucket
InitRuns == InitWorld(TemplatesOne) /\ runsLeft = MaxRuns

SpecRuns == InitRuns /\ [][Next]_vars

(***************************************************************************)
(* Vocabulary of the properties.                                           *)
(***************************************************************************)
\* the completion callback has been invoked
Completed == callbackLog # <<>>

\* the completion callback received no error and the template
Succeeded == \E i \in 1..Len(callbackLog) : callbackLog[i].err = NoErr

\* the completion callback received an error
Failed == \E i \in 1..Len(callbackLog) : callbackLog[i].err # NoErr

\* the resource as the template file has it
Original(k) == templateFile.Resources.v[k]

InTable(k) == packageResourceMap(Original(k).Type).t = "string"

OriginalValue(k) == Get(Original(k).Properties, PropertyName(Original(k)))

\* the artifact property held a local path when the template was loaded
HeldLocalPath(k) ==
  /\ InTable(k)
  /\ Original(k).Properties.t = "object"
  /\ OriginalValue(k).t = "string"
  /\ ~StartsWith(OriginalValue(k).v, "s3:")

CurrentValue(k) == Get(template.Resources.v[k].Properties, PropertyName(Original(k)))

\* s3://{bucket}/{prefix/}{logicalId}-{first 16 hex digits of the fingerprint}
RemoteLocation(k) ==
  <<"s3:", "/", "/", options.bucket, "/">>
    \o (IF options.prefix.t = "undefined" THEN <<>> ELSE options.prefix.v \o <<"/">>)
    \o <<k, "-", IF tasks[k].thumbprint.t = "undefined"
                 THEN md5(tasks[k].body).hi
                 ELSE tasks[k].thumbprint.v.hi>>

IsRemote(k) == CurrentValue(k).t = "string" /\ CurrentValue(k).v = RemoteLocation(k)

StillOriginal(k) == CurrentValue(k) = OriginalValue(k)

\* the task called back with an error / with null
Reported(k, err) == \E i \in 1..Len(tasks[k].log) : tasks[k].log[i] = err
ReportedError(k) == \E i \in 1..Len(tasks[k].log) : tasks[k].log[i] # NoErr
ReportedSuccess(k) == Reported(k, NoErr)

(***************************************************************************)
(* C1 as stated: after a successful run every resource whose type is in    *)
(* the lookup table and whose artifact property held a local path has that *)
(* property equal to s3://{bucket}/{key}, with updateFunctions on or off.  *)
(***************************************************************************)
C1_AnyModeRewritten ==
  Succeeded => \A k \in DOMAIN tasks : HeldLocalPath(k) => IsRemote(k)

(***************************************************************************)
(* C1 as amended: the same, for the resources the run's mode covers: all   *)
(* table types when updateFunctions is off, the two function types when it *)
(* is on.                                                                  *)
(***************************************************************************)
C1_InScopeRewritten ==
  Succeeded =>
    \A k \in DOMAIN tasks :
      (/\ HeldLocalPath(k)
       /\ options.updateFunctions => Original(k).Type \in FunctionTypes)
      => IsRemote(k)

C1_Witness ==
  /\ Succeeded
  /\ options.updateFunctions
  /\ Cardinality(DOMAIN tasks) = 2
  /\ \A k \in DOMAIN tasks : HeldLocalPath(k) /\ IsRemote(k)

\* a type the planner handles in the mode of the run
Recognized(k) ==
  /\ InTable(k)
  /\ options.updateFunctions => Original(k).Type \in FunctionTypes

(***************************************************************************)
(* C2: when a resource of a recognized type has a string for Properties,   *)
(* no PUT is issued for any resource of the run, and the run, once it      *)
(* completes, has failed with the structural error of such a resource.     *)
(***************************************************************************)
C2_NoUploadAfterStructuralError ==
  LET bad == {k \in DOMAIN tasks : Recognized(k) /\ Original(k).Properties.t = "string"}
  IN  bad # {} =>
        /\ \A k \in DOMAIN tasks : tasks[k].put = "none"
        /\ Completed => \E k \in bad : callbackLog[1].err = ErrProperties(k)

(***************************************************************************)
(* C3: a task that reported an error (and nothing else) has left the       *)
(* artifact property of its resource as it was.                            *)
(***************************************************************************)
C3_ErrorLeavesProperty ==
  \A k \in DOMAIN tasks :
    (Len(tasks[k].log) = 1 /\ ReportedError(k)) => StillOriginal(k)

(***************************************************************************)
(* C4: in a run that follows one which stored the artifact of a resource,  *)
(* with the file or directory unchanged, the existence check of that       *)
(* resource uses the same key, is answered 304, and no PUT is issued.      *)
(***************************************************************************)
C4_SecondRunNoPut ==
  \A k \in DOMAIN tasks \cap DOMAIN prev :
    (/\ prev[k].uploaded
     /\ tasks[k].head = "responded"
     /\ tasks[k].headStatus # OtherStatus)
    => /\ TaskKey(k) = prev[k].key
       /\ tasks[k].headStatus = 304
       /\ tasks[k].put = "none"

\* an in-scope function resource of a live-update run that the live index lacks
MissingFromIndex(k) ==
  /\ options.updateFunctions
  /\ Original(k).Type \in FunctionTypes
  /\ HeldLocalPath(k)
  /\ k \notin StackResources

(***************************************************************************)
(* C5 as stated: in live-update mode the task of a function resource       *)
(* absent from the live index never reports success, whatever the          *)
(* existence check answered.                                               *)
(***************************************************************************)
C5_NeverSucceeds ==
  \A k \in DOMAIN tasks : MissingFromIndex(k) => ~ReportedSuccess(k)

(***************************************************************************)
(* C5 as amended: for such a resource, when the existence check answers    *)
(* 200 or 404 the task never reports success, and once the PUT has ended   *)
(* it has reported "The resource '<logicalId>' in the stack is not found"  *)
(* and the run has failed; when the check answers 304 the task succeeds    *)
(* without looking at the index.                                           *)
(***************************************************************************)
C5_NotFoundAfterPut ==
  \A k \in DOMAIN tasks :
    MissingFromIndex(k) =>
      /\ tasks[k].headStatus \in {200, 404} => ~ReportedSuccess(k)
      /\ tasks[k].put = "ended" =>
           /\ Reported(k, ErrNotFound(k))
           /\ Failed /\ ~Succeeded
      /\ tasks[k].headStatus = 304 => ReportedSuccess(k)

C5_Witness ==
  \E k \in DOMAIN tasks :
    /\ MissingFromIndex(k)
    /\ tasks[k].put = "ended"
    /\ tasks[k].log = <<ErrNotFound(k)>>
    /\ Failed

(***************************************************************************)
(* C6: a PUT or a function update answered with a status other than 200    *)
(* makes the task report an error, and the completion callback never       *)
(* receives the template.                                                  *)
(***************************************************************************)
C6_BadStatusIsFatal ==
  \A k \in DOMAIN tasks :
    (\/ tasks[k].putStatus \in PutStatuses \ {200}
     \/ tasks[k].updStatus \in UpdateStatuses \ {200})
    => ReportedError(k) /\ ~Succeeded

(***************************************************************************)
(* C7: an existence check answered with a status other than 304, 200 and   *)
(* 404 makes the task call back with 'Response <code> <text> from S3',     *)
(* issues no PUT, and the completion callback is invoked with an error.    *)
(***************************************************************************)
C7_OtherStatusFailsTask ==
  \A k \in DOMAIN tasks :
    (tasks[k].headStatus \notin {0, 304, 200, 404})
    => /\ Reported(k, ErrResponse(tasks[k].headStatus))
       /\ tasks[k].put = "none"
       /\ Failed

(***************************************************************************)
(* C8: a PUT is issued exactly for the tasks whose existence check was     *)
(* answered 200 or 404; a task whose check was answered 304 issues no PUT  *)
(* and no function update, has rewritten the artifact property to the      *)
(* remote location and has reported success.                               *)
(***************************************************************************)
C8_PutIffAbsentOrDifferent ==
  \A k \in DOMAIN tasks :
    /\ tasks[k].put # "none" <=> tasks[k].headStatus \in {200, 404}
    /\ tasks[k].headStatus = 304 =>
         /\ tasks[k].put = "none" /\ tasks[k].upd = "none"
         /\ IsRemote(k)
         /\ tasks[k].log[1] = NoErr

C8_Witness ==
  /\ \E k \in DOMAIN tasks :
       tasks[k].headStatus = 304 /\ IsRemote(k) /\ tasks[k].log = <<NoErr>>
  /\ \E k \in DOMAIN tasks :
       tasks[k].headStatus = 404 /\ tasks[k].put = "ended"
  /\ options.updateFunctions

(***************************************************************************)
(* C9: the completion callback is invoked at most once, with an error and  *)
(* no template or with no error and the template.                          *)
(***************************************************************************)
C9_CallbackAtMostOnce ==
  /\ Len(callbackLog) <= 1
  /\ \A i \in 1..Len(callbackLog) :
       callbackLog[i].template <=> callbackLog[i].err = NoErr

C9_Witness ==
  /\ Len(callbackLog) = 1
  /\ Cardinality({k \in DOMAIN tasks : ReportedError(k)}) = 2

\* some external call of the run has not been answered yet
PendingIO ==
  /\ ~crashed
  /\ \/ outer.read = "sent" \/ outer.describe = "sent"
     \/ \E k \in DOMAIN tasks : InFlight(tasks[k])

\* Resources is a mapping, and so is every Properties that is present
WellShaped ==
  /\ templateFile.Resources.t = "object"
  /\ \A k \in DOMAIN templateFile.Resources.v :
       templateFile.Resources.v[k].Properties.t \in {"undefined", "object"}

(***************************************************************************)
(* C10: a run whose external calls are all answered reaches done or        *)
(* failed.  Stated as what every finite run shows: a run that has not      *)
(* invoked the completion callback is still waiting for an answer.  Taken  *)
(* for the well-shaped templates, the least the claim covers.              *)
(***************************************************************************)
C10_CompletesOrWaits ==
  WellShaped => (phase = "idle" \/ Completed \/ PendingIO)

(***************************************************************************)
(* C11: when the completion callback has received the template, every      *)
(* resource task has called back with success first, no file read, HEAD,   *)
(* PUT or function update of the run is outstanding, and every resource    *)
(* the run's mode covers that held a local path has been rewritten; also   *)
(* when a request delivers a second completion event to its task.          *)
(***************************************************************************)
C11_SuccessAfterAllSettled ==
  Succeeded =>
    \A k \in DOMAIN tasks :
      /\ ~InFlight(tasks[k])
      /\ tasks[k].log # <<>> /\ tasks[k].log[1] = NoErr
      /\ (Recognized(k) /\ HeldLocalPath(k)) => IsRemote(k)

C11_Witness ==
  /\ Succeeded
  /\ \E k \in DOMAIN tasks : tasks[k].head = "respFailed" /\ Len(tasks[k].log) = 2
  /\ \E k \in DOMAIN tasks : tasks[k].put = "ended" /\ IsRemote(k)

\* a resource task has left the planner: a read, a HEAD, a PUT or an update
\* was issued for it
Started(t) ==
  \/ t.stage \notin {"idle", "skipped", "invalid", "thrown"}
  \/ t.head # "none" \/ t.put # "none" \/ t.upd # "none"

(***************************************************************************)
(* C12: a resource task is started only when the template load and the     *)
(* live stack load (a constant {} outside live-update mode) have both      *)
(* ended with a result; and when the live stack load has ended otherwise   *)
(* (transport error, error document, unreadable or unexpected body) the    *)
(* completion callback has received an error and no task was started.      *)
(***************************************************************************)
C12_LoadingJoin ==
  /\ (\E k \in DOMAIN tasks : Started(tasks[k]))
       => outer.read = "done" /\ outer.describe = "done"
  /\ outer.describe \in {"failed", "thrown"}
       => /\ Failed /\ ~Succeeded
          /\ \A k \in DOMAIN tasks : ~Started(tasks[k])
          /\ DOMAIN store = {}

\* the artifact property of the resource already names a remote location
AlreadyRemote(k) ==
  /\ InTable(k)
  /\ Original(k).Properties.t = "object"
  /\ OriginalValue(k).t = "string"
  /\ OriginalValue(k).v[1] = "s3:"

(***************************************************************************)
(* C13: a resource whose artifact property already begins with s3: is      *)
(* skipped in either mode: no file read, HEAD, PUT or function update is   *)
(* issued for it, its task reports no error, and its resource in the       *)
(* template stays as loaded.                                               *)
(***************************************************************************)
C13_RemoteIsSkipped ==
  \A k \in DOMAIN tasks :
    AlreadyRemote(k) =>
      /\ ~Started(tasks[k])
      /\ ~ReportedError(k)
      /\ template.Resources.v[k] = Original(k)

C13_Witness ==
  /\ Succeeded
  /\ \E k \in DOMAIN tasks : AlreadyRemote(k) /\ tasks[k].log = <<NoErr>>
  /\ \E k \in DOMAIN tasks : tasks[k].put = "ended" /\ IsRemote(k)

\* a resource the run's mode covers whose Properties is present and not a mapping
NotAMapping(k) ==
  /\ Recognized(k)
  /\ Original(k).Properties.t \in {"string", "null", "array"}

(***************************************************************************)
(* C14: when a resource of a lookup-table type has a Properties that is    *)
(* present but not a mapping (a string, null or a list here), a run with   *)
(* nothing left to wait for has invoked the completion callback with the   *)
(* structural error of such a resource.  Taken for the resources the       *)
(* planner looks at in the mode of the run, the least the claim covers.    *)
(***************************************************************************)
C14_NotAMappingFailsRun ==
  LET bad == {k \in DOMAIN tasks : NotAMapping(k)}
  IN  (bad # {} /\ Quiet /\ phase # "idle") =>
        /\ Completed
        /\ \E k \in bad : callbackLog[1].err = ErrProperties(k)

\* the position of a logical id in Object.entries order
Position(k) == CHOOSE i \in 1..Len(IdOrder) : IdOrder[i] = k

\* in this step the task of k called back with err, and no task had called
\* back with an error before it
FirstToFail(k, err) ==
  /\ tasks'[k].log # <<>>
  /\ tasks'[k].log[Len(tasks'[k].log)] = err
  /\ IF DOMAIN tasks = {}
     THEN \* the tasks were started in this step: the synchronous callbacks
          /\ \A i \in 1..(Len(tasks'[k].log) - 1) : tasks'[k].log[i] = NoErr
          /\ \A j \in DOMAIN tasks' :
               Position(j) < Position(k) =>
                 \A i \in 1..Len(tasks'[j].log) : tasks'[j].log[i] = NoErr
     ELSE /\ Len(tasks'[k].log) = Len(tasks[k].log) + 1
          /\ \A j \in DOMAIN tasks : ~ReportedError(j)

(***************************************************************************)
(* C15: the error the completion callback receives from the resource tasks *)
(* is the error of the task that was first to call back with one; once the *)
(* callback has been invoked nothing a task does later reaches it; and a   *)
(* step of one task leaves the requests of its siblings as they are, so    *)
(* they go on after the run has failed.                                    *)
(***************************************************************************)
C15_FirstErrorWins ==
  [][/\ (callbackLog = <<>> /\ callbackLog' # <<>> /\ DOMAIN tasks' # {}
          /\ callbackLog'[1].err # NoErr)
         => \E k \in DOMAIN tasks' : FirstToFail(k, callbackLog'[1].err)
     /\ (callbackLog # <<>> /\ phase' # "loading") => callbackLog' = callbackLog
     /\ (DOMAIN tasks # {} /\ DOMAIN tasks' # {})
         => Cardinality({k \in DOMAIN tasks : tasks'[k] # tasks[k]}) <= 1
    ]_vars

C15_Witness ==
  /\ Len(callbackLog) = 1
  /\ \E k \in DOMAIN tasks :
       /\ tasks[k].stage = "invalid"
       /\ callbackLog[1].err = ErrProperties(k)
  /\ \E k \in DOMAIN tasks :
       /\ tasks[k].put = "ended"
       /\ tasks[k].log = <<ErrNotFound(k)>>

\* resource.Properties in the template of the run
PropertiesOf(tpl, k) == tpl.Resources.v[k].Properties

(***************************************************************************)
(* C16: a step changes, in the template of the run, at most the artifact   *)
(* property of the one resource whose task took the step: the Type, the    *)
(* other property keys and the other resources stay as they are; and the   *)
(* live stack resource index does not change once the tasks exist.         *)
(***************************************************************************)
C16_PartitionedWrites ==
  [][(DOMAIN tasks # {} /\ DOMAIN tasks' # {}) =>
       /\ StackResources' = StackResources
       /\ DOMAIN template'.Resources.v = DOMAIN template.Resources.v
       /\ \A k \in DOMAIN tasks :
            /\ template'.Resources.v[k].Type = template.Resources.v[k].Type
            /\ PropertiesOf(template', k).t = PropertiesOf(template, k).t
            /\ IF PropertiesOf(template, k).t = "object"
               THEN /\ DOMAIN PropertiesOf(template', k).v = DOMAIN PropertiesOf(template, k).v
                    /\ \A n \in DOMAIN PropertiesOf(template, k).v :
                         PropertiesOf(template', k).v[n] # PropertiesOf(template, k).v[n]
                           => /\ n = PropertyName(Original(k))
                              /\ tasks'[k] # tasks[k]
               ELSE PropertiesOf(template', k) = PropertiesOf(template, k)
    ]_vars

C16_Witness ==
  /\ Succeeded
  /\ Cardinality(DOMAIN tasks) = 2
  /\ \A k \in DOMAIN tasks :
       /\ tasks[k].put = "ended"
       /\ IsRemote(k)
       /\ Get(PropertiesOf(template, k), "Handler") = Get(Original(k).Properties, "Handler")

(***************************************************************************)
(* C17: a task sends each of HEAD, PUT and function update at most once    *)
(* (a request that was sent is never sent again); the PUT is sent in the   *)
(* step that takes the HEAD's answer, 200 or 404; the function update is   *)
(* sent only in live-update mode, in the step that ends the PUT, with the  *)
(* bucket and the key of that PUT.                                         *)
(***************************************************************************)
C17_ProtocolOrder ==
  [][(DOMAIN tasks # {} /\ DOMAIN tasks' # {}) =>
       \A k \in DOMAIN tasks :
         /\ (tasks'[k].head = "sent" /\ tasks[k].head # "sent")
              => tasks[k].head = "none" /\ tasks[k].put = "none" /\ tasks[k].upd = "none"
         /\ (tasks'[k].put = "sent" /\ tasks[k].put # "sent")
              => /\ tasks[k].put = "none" /\ tasks[k].upd = "none"
                 /\ tasks[k].head = "sent" /\ tasks'[k].head = "responded"
                 /\ tasks'[k].headStatus \in {200, 404}
         /\ (tasks'[k].upd = "sent" /\ tasks[k].upd # "sent")
              => /\ tasks[k].upd = "none"
                 /\ options.updateFunctions
                 /\ tasks[k].put \in {"sent", "failed"}
                 /\ tasks'[k].put \in {"ended", "failedEnded"}
                 /\ tasks'[k].params =
                      <<[FunctionName |-> PhysicalId(k), S3Bucket |-> options.bucket,
                         S3Key |-> TaskKey(k)]>>
                 /\ (tasks'[k].putStatus = 200 => store'[TaskKey(k)] = tasks[k].body)
         /\ (tasks[k].head # "none" => tasks'[k].head # "none")
         /\ (tasks[k].put # "none" => tasks'[k].put # "none")
         /\ (tasks[k].upd # "none" => tasks'[k].upd # "none")
    ]_vars

C17_Witness ==
  \E k \in DOMAIN tasks :
    /\ options.prefix.t = "string"
    /\ tasks[k].head = "responded" /\ tasks[k].put = "ended" /\ tasks[k].upd = "ended"
    /\ tasks[k].params # <<>>
    /\ tasks[k].params[1].S3Key = TaskKey(k)
    /\ tasks[k].log = <<NoErr>>

\* the planner passes the resource over because of its Type alone
SkippedByType(k) ==
  \/ ~InTable(k)
  \/ options.updateFunctions /\ Original(k).Type \notin FunctionTypes

(***************************************************************************)
(* C18: a resource whose Type is not in the lookup table, or, in           *)
(* live-update mode, is not one of the two function types, has no file     *)
(* read and no request issued, its task calls back with no error, its      *)
(* resource in the template stays as loaded, and the completion callback   *)
(* never receives a Properties error for it, whatever its Properties is.   *)
(***************************************************************************)
C18_SilentSkips ==
  \A k \in DOMAIN tasks :
    SkippedByType(k) =>
      /\ ~Started(tasks[k])
      /\ ~ReportedError(k)
      /\ tasks[k].stage = "skipped" => tasks[k].log = <<NoErr>>
      /\ ~crashed => tasks[k].stage = "skipped"
      /\ template.Resources.v[k] = Original(k)
      /\ \A i \in 1..Len(callbackLog) : callbackLog[i].err # ErrProperties(k)

C18_Witness ==
  /\ Succeeded
  /\ options.updateFunctions
  /\ \E k \in DOMAIN tasks :
       /\ InTable(k) /\ SkippedByType(k)
       /\ Original(k).Properties.t = "string"
       /\ tasks[k].log = <<NoErr>>
  /\ \E k \in DOMAIN tasks : tasks[k].put = "ended" /\ IsRemote(k)

(***************************************************************************)
(* C19: a PUT that stores an object under the key a PUT of the previous    *)
(* run stored one under carries the same payload.                          *)
(***************************************************************************)
C19_SameKeySamePayload ==
  \A k \in DOMAIN tasks \cap DOMAIN prev :
    (/\ prev[k].uploaded
     /\ Uploaded(tasks[k])
     /\ TaskKey(k) = prev[k].key)
    => tasks[k].body = prev[k].body

====
